---- MODULE Spec2Model ----
\* A model of pytest_logger: the TestLogger router (logger/logger.py) over the
\* standard logging facility, driven by the pytest hooks of plugin.py.
EXTENDS Integers, Sequences, FiniteSets, TLC

VARIABLES
    handlers,               \* logging.Logger.handlers of self.__logger, in attach order
    term_handler,           \* self.__term_handler: index into handlers, 0 = None
    setup_file_handler,     \* self.__setup_file_handler: index into handlers, 0 = None
    term_format,            \* self.__term_format
    setup_format,           \* self.__setup_format
    term_config_loglevel,   \* self.__term_config_loglevel
    term_setup_loglevel,    \* self.__term_setup_loglevel
    term_call_loglevel,     \* self.__term_call_loglevel
    setup_file_loglevel,    \* self.__setup_file_loglevel
    stepn,                  \* self.__stepn
    substepn,               \* self.__substepn
    configured,             \* pytest_configure has run
    stage,                  \* the hook the driver ran last for the current item
    testcase,               \* meta.testcase of the current item
    last,                   \* the last operation, its arguments and what it raised
    record,                 \* the LogRecord the last operation made, or NoRecord
    writes,                 \* the writes the last operation caused, in handler order
    option,                 \* config.option: the --term-*-loglevel values pytest parsed
    lookup                  \* the last lookup in the levels table: function, argument, result

vars == <<handlers, term_handler, setup_file_handler, term_format, setup_format,
          term_config_loglevel, term_setup_loglevel, term_call_loglevel,
          setup_file_loglevel, stepn, substepn, configured, stage, testcase,
          last, record, writes, option, lookup>>

\* ---------------------------------------------------------------- bounds

\* Handlers the logger may hold (no handler is ever removed, so attaching stops here).
MaxHandlers == 3
\* Cap of the step counters.
MaxStep == 2

\* The ranks a reverse lookup is asked for: 0 .. MaxRank.
MaxRank == 51

\* ---------------------------------------------------------------- values

None == <<>>
Some(x) == <<x>>
Opt(S) == {None} \cup {Some(x) : x \in S}

\* The levels table with fail registered at the rank of warning.
levels_fail_at_warning ==
    [ debug    |-> [level |-> 10, color |-> "CYAN"],
      info     |-> [level |-> 20, color |-> "WHITE"],
      warning  |-> [level |-> 30, color |-> "YELLOW"],
      error    |-> [level |-> 40, color |-> "RED"],
      critical |-> [level |-> 50, color |-> "RED"],
      step     |-> [level |-> 21, color |-> "WHITE"],
      substep  |-> [level |-> 22, color |-> "light_gray"],
      pass     |-> [level |-> 23, color |-> "GREEN"],
      fail     |-> [level |-> 30, color |-> "RED"] ]

\* The levels table with fail registered above critical.
levels_fail_above_critical ==
    [ debug    |-> [level |-> 10, color |-> "CYAN"],
      info     |-> [level |-> 20, color |-> "WHITE"],
      warning  |-> [level |-> 30, color |-> "YELLOW"],
      error    |-> [level |-> 40, color |-> "RED"],
      critical |-> [level |-> 50, color |-> "RED"],
      step     |-> [level |-> 21, color |-> "WHITE"],
      substep  |-> [level |-> 22, color |-> "light_gray"],
      pass     |-> [level |-> 23, color |-> "GREEN"],
      fail     |-> [level |-> 51, color |-> "RED"] ]

\* logging.DEBUG .. logging.CRITICAL as the module-level table uses them.
levels ==
    [ debug    |-> [level |-> 10, color |-> "CYAN"],
      info     |-> [level |-> 20, color |-> "WHITE"],
      warning  |-> [level |-> 30, color |-> "YELLOW"],
      error    |-> [level |-> 40, color |-> "RED"],
      critical |-> [level |-> 50, color |-> "RED"],
      step     |-> [level |-> 21, color |-> "WHITE"],
      substep  |-> [level |-> 22, color |-> "light_gray"],
      pass     |-> [level |-> 23, color |-> "GREEN"],
      fail     |-> [level |-> 31, color |-> "RED"] ]

LevelNames == DOMAIN levels

\* The values --term-*-loglevel can select.
choices == {"debug", "info", "warning", "error", "critical"}

Thresholds == {levels[n].level : n \in choices}

\* The thresholds a caller passes as level=: one below and one above the default.
ArgLevels == {levels["debug"].level, levels["error"].level}

\* '[%(levelname)s%(step)s] - %(message)s', as the fields it substitutes.
DefaultFormat == <<"levelname", "step", "message">>
\* A format a caller passes as fmt=.
CallerFormat == <<"asctime", "levelname", "step", "message">>

\* meta.testcase of the items the driver runs.
Testcases == {"test_hello", "test_other"}

\* logging.StreamHandler() with no stream writes to sys.stderr.
Stderr == <<"sys.stderr">>
\* f'./reports/{meta.testcase}_setup.log'
SetupLogPath(t) == <<"./reports/", t, "_setup.log">>

NoRecord == [made |-> FALSE]

\* ---------------------------------------------------------------- the levels table

\* levels.items(): the keys of the table in the order the literal lists them.
LevelOrder ==
    <<"debug", "info", "warning", "error", "critical", "step", "substep", "pass", "fail">>

\* A str is the sequence of its characters; the keys of the table spelled out.
KeyChars ==
    [ debug    |-> <<"d", "e", "b", "u", "g">>,
      info     |-> <<"i", "n", "f", "o">>,
      warning  |-> <<"w", "a", "r", "n", "i", "n", "g">>,
      error    |-> <<"e", "r", "r", "o", "r">>,
      critical |-> <<"c", "r", "i", "t", "i", "c", "a", "l">>,
      step     |-> <<"s", "t", "e", "p">>,
      substep  |-> <<"s", "u", "b", "s", "t", "e", "p">>,
      pass     |-> <<"p", "a", "s", "s">>,
      fail     |-> <<"f", "a", "i", "l">> ]

UpperCase ==
    <<"A", "B", "C", "D", "E", "F", "G", "H", "I", "J", "K", "L", "M",
      "N", "O", "P", "Q", "R", "S", "T", "U", "V", "W", "X", "Y", "Z">>
LowerCase ==
    <<"a", "b", "c", "d", "e", "f", "g", "h", "i", "j", "k", "l", "m",
      "n", "o", "p", "q", "r", "s", "t", "u", "v", "w", "x", "y", "z">>

\* str.lower() and str.upper()
lower(str) ==
    [i \in DOMAIN str |->
        IF \E k \in DOMAIN UpperCase : UpperCase[k] = str[i]
        THEN LowerCase[CHOOSE k \in DOMAIN UpperCase : UpperCase[k] = str[i]]
        ELSE str[i]]
upper(str) ==
    [i \in DOMAIN str |->
        IF \E k \in DOMAIN LowerCase : LowerCase[k] = str[i]
        THEN UpperCase[CHOOSE k \in DOMAIN LowerCase : LowerCase[k] = str[i]]
        ELSE str[i]]

\* str.replace(ch, '') for a one-character ch
replace(str, ch) ==
    LET Keep(c) == c # ch IN SelectSeq(str, Keep)

\* a in b, for two strs
In(a, b) ==
    \E i \in 0..(Len(b) - Len(a)) : SubSeq(b, i + 1, i + Len(a)) = a

\* level_name.lower().replace(' ', '').replace('-', '').replace('_', '')
Normalise(level_name) == replace(replace(replace(lower(level_name), " "), "-"), "_")

\* __map_correct_level: the first key of the table that contains the normalised
\* name replaces it; levels.get(name, {}).get('level', levels['info']['level']).
map_correct_level(level_name) ==
    LET name == Normalise(level_name)
        hits == {i \in DOMAIN LevelOrder : In(name, KeyChars[LevelOrder[i]])}
    IN  IF hits # {}
        THEN LET first == CHOOSE i \in hits : \A j \in hits : i <= j
             IN  [raised |-> "", value |-> levels[LevelOrder[first]].level]
        ELSE [raised |-> "", value |-> levels["info"].level]

\* levels_by_value = {v["level"]: k for k, v in levels.items()}, then .get(rank):
\* where two keys carry one rank the later key overwrites the earlier.
levels_by_value_get(rank) ==
    LET keys == {i \in DOMAIN LevelOrder : levels[LevelOrder[i]].level = rank}
    IN  IF keys = {} THEN None
        ELSE Some(LevelOrder[CHOOSE i \in keys : \A j \in keys : j <= i])

\* ColorFormatter.__get_level_by_value: (key, levels[key]) if key else (None, None)
get_level_by_value(target_value) ==
    LET key == levels_by_value_get(target_value)
    IN  IF key # None
        THEN [name |-> key, data |-> Some(levels[key[1]])]
        ELSE [name |-> None, data |-> None]

\* choices=["DEBUG", "INFO", "WARNING", "ERROR", "CRITICAL"] of the three options.
OptionChoices == {upper(KeyChars[n]) : n \in choices}
\* default="INFO"
DefaultOption == upper(KeyChars["info"])
OptionNames == {"term_config_loglevel", "term_setup_loglevel", "term_call_loglevel"}
DefaultOptions == [o \in OptionNames |-> DefaultOption]

\* The names a resolution is asked for: keys of the table, parts of keys and
\* words that are in no key, each as written, in capitals, and with one
\* separator before or after.
Words ==
    {KeyChars[n] : n \in LevelNames} \cup
    { <<"w", "a", "r", "n">>, <<"s", "u", "b">>, <<"e">>, <<>>,
      <<"v", "e", "r", "b", "o", "s", "e">>, <<"t", "r", "a", "c", "e">>,
      <<"f", "a", "t", "a", "l">>, <<"p", "a", "s", "s", "e", "d">> }
Separators == {" ", "-", "_"}
NameInputs ==
    Words \cup {upper(w) : w \in Words}
          \cup {<<c>> \o w : c \in Separators, w \in Words}
          \cup {w \o <<c>> : c \in Separators, w \in Words}

NoLookup == [fn |-> "", arg |-> None, raised |-> "", result |-> None]

\* ---------------------------------------------------------------- the object

\* The fields of the TestLogger instance, as one value the methods transform.
Self ==
    [ handlers |-> handlers, term_handler |-> term_handler,
      setup_file_handler |-> setup_file_handler,
      term_format |-> term_format, setup_format |-> setup_format,
      term_config_loglevel |-> term_config_loglevel,
      term_setup_loglevel |-> term_setup_loglevel,
      term_call_loglevel |-> term_call_loglevel,
      setup_file_loglevel |-> setup_file_loglevel,
      stepn |-> stepn, substepn |-> substepn ]

\* TestLogger.__init__ with a default terminal format that has the timestamp field.
NewTestLogger_timestamped ==
    [ handlers |-> <<>>, term_handler |-> 0, setup_file_handler |-> 0,
      term_format |-> CallerFormat, setup_format |-> DefaultFormat,
      term_config_loglevel |-> levels["info"].level,
      term_setup_loglevel |-> levels["info"].level,
      term_call_loglevel |-> levels["info"].level,
      setup_file_loglevel |-> levels["info"].level,
      stepn |-> 0, substepn |-> 0 ]

\* TestLogger.__init__: no handler, every threshold at levels['info'], counters 0.
NewTestLogger ==
    [ handlers |-> <<>>, term_handler |-> 0, setup_file_handler |-> 0,
      term_format |-> DefaultFormat, setup_format |-> DefaultFormat,
      term_config_loglevel |-> levels["info"].level,
      term_setup_loglevel |-> levels["info"].level,
      term_call_loglevel |-> levels["info"].level,
      setup_file_loglevel |-> levels["info"].level,
      stepn |-> 0, substepn |-> 0 ]

\* self.__logger.setLevel(levels['info']['level'])
LoggerLevel == levels["info"].level

\* The properties of TestLogger that have a setter.
Setters == {"term_config_loglevel", "term_setup_loglevel", "term_call_loglevel"}
HasSetter(prop) == prop \in Setters

\* The leveled calls TestLogger defines.
Methods == {"debug", "info", "warning", "error", "passed", "fail", "step", "substep"}

\* What a method returns: the object after it, and the exception it raised ("" = none).
Ok(s) == [self |-> s, raised |-> "", record |-> NoRecord, writes |-> <<>>]
Raise(s, exc) == [self |-> s, raised |-> exc, record |-> NoRecord, writes |-> <<>>]

\* ---------------------------------------------------------------- destinations

\* Handler.setLevel on the handler a field refers to; on None it is an AttributeError.
SetLevel(s, h, lvl) ==
    IF h = 0
    THEN Raise(s, "AttributeError")
    ELSE Ok([s EXCEPT !.handlers[h].level = lvl])

\* addHandler after removing the handler of the same kind that was attached before.
add_handler_replacing(hs, handler) ==
    Append(SelectSeq(hs, LAMBDA x : x.kind # handler.kind), handler)

\* self.__logger.addHandler(handler)
add_handler(hs, handler) == Append(hs, handler)

init_term_handler(s, level, fmt) ==
    LET s1 == IF level # None THEN [s EXCEPT !.term_config_loglevel = level[1]] ELSE s
        s2 == IF fmt # None THEN [s1 EXCEPT !.term_format = fmt[1]] ELSE s1
        h  == [kind |-> "term", sink |-> Stderr,
               level |-> s2.term_config_loglevel, fmt |-> s2.term_format]
        hs == add_handler(s2.handlers, h)
    IN  Ok([s2 EXCEPT !.handlers = hs, !.term_handler = Len(hs)])

\* What the file system does to __ensure_path and to logging.FileHandler(filename=...).
FsOutcomes == {"ok", "mkdir_fails", "open_fails"}

\* init_setup_logger catching the OSError of the file system and returning.
init_setup_logger_swallowing(s, path, level, fmt, fs) ==
    LET s1 == IF level # None THEN [s EXCEPT !.setup_file_loglevel = level[1]] ELSE s
        s2 == IF fmt # None THEN [s1 EXCEPT !.setup_format = fmt[1]] ELSE s1
        h  == [kind |-> "file", sink |-> path,
               level |-> s2.setup_file_loglevel, fmt |-> s2.setup_format]
        hs == Append(s2.handlers, h)
    IN  IF fs # "ok"
        THEN [self |-> s2, raised |-> "", record |-> [made |-> FALSE], writes |-> <<>>]
        ELSE [self |-> [s2 EXCEPT !.handlers = hs, !.setup_file_handler = Len(hs)],
              raised |-> "", record |-> [made |-> FALSE], writes |-> <<>>]

init_setup_logger(s, path, level, fmt, fs) ==
    LET s1 == IF level # None THEN [s EXCEPT !.setup_file_loglevel = level[1]] ELSE s
        s2 == IF fmt # None THEN [s1 EXCEPT !.setup_format = fmt[1]] ELSE s1
        h  == [kind |-> "file", sink |-> path,
               level |-> s2.setup_file_loglevel, fmt |-> s2.setup_format]
        hs == add_handler(s2.handlers, h)
    IN  IF fs # "ok"
        THEN Raise(s2, "OSError")
        ELSE Ok([s2 EXCEPT !.handlers = hs, !.setup_file_handler = Len(hs)])

configure_term_logger_setup(s) == SetLevel(s, s.term_handler, s.term_setup_loglevel)

\* configure_term_logger_call applying the configuration threshold.
configure_term_logger_call_config(s) == SetLevel(s, s.term_handler, s.term_config_loglevel)

configure_term_logger_call(s) == SetLevel(s, s.term_handler, s.term_call_loglevel)

\* The file streams the process holds open: a FileHandler opens its file when it is
\* made, and nothing closes it.
OpenFiles(hs) == {i \in 1..Len(hs) : hs[i].kind = "file"}

\* ---------------------------------------------------------------- leveled calls

\* The level argument a method hands to the logging facility: an integer, or (when
\* the whole entry of the levels table is passed) a dict.
IntArg(n) == [type |-> "int", value |-> n]
DictArg(d) == [type |-> "dict", value |-> d]

\* The step tag of a record, extra={"step": ...}: "" is <<>>, f" {stepn}" is <<stepn>>,
\* f" {stepn}.{substepn}" is <<stepn, substepn>>.
NoTag == <<>>
StepTag(s) == <<s.stepn>>
SubstepTag(s) == <<s.stepn, s.substepn>>

\* logging.lastResort: with no handler on the logger, a record of WARNING or above
\* goes to sys.stderr.
lastResortLevel == levels["warning"].level

\* Logger.callHandlers: every handler whose level the record reaches emits it once,
\* in the order the handlers were added.
callHandlers(hs, levelno, tag) ==
    IF Len(hs) = 0
    THEN IF levelno >= lastResortLevel
         THEN <<[h |-> 0, sink |-> Stderr, levelno |-> levelno, step |-> tag]>>
         ELSE <<>>
    ELSE SelectSeq([i \in 1..Len(hs) |->
                       [h |-> i, sink |-> hs[i].sink, levelno |-> levelno, step |-> tag]],
                   LAMBDA w : levelno >= hs[w.h].level)

\* Logger._log(level, msg, (), extra=extra): makes the LogRecord (getLevelName(level)
\* looks the level up in a dict, a TypeError for an unhashable level) and handles it.
\* It does not consult the logger's own level.
Log(s, level, tag) ==
    IF level.type # "int"
    THEN Raise(s, "TypeError")
    ELSE [self |-> s, raised |-> "",
          record |-> [made |-> TRUE, levelno |-> level.value, step |-> tag],
          writes |-> callHandlers(s.handlers, level.value, tag)]

\* Logger.isEnabledFor(level)
isEnabledFor(levelno) == levelno >= LoggerLevel

\* Logger.debug / info / warning / error: _log when the logger is enabled for the level.
LoggerLeveled(s, levelno, tag) ==
    IF isEnabledFor(levelno) THEN Log(s, IntArg(levelno), tag) ELSE Ok(s)

\* The level each method hands to the logging facility: Logger.debug .. Logger.error
\* use logging.DEBUG .. logging.ERROR, the others pass an argument to Logger._log.
LevelArg(name) ==
    CASE name = "debug"   -> IntArg(levels["debug"].level)
      [] name = "info"    -> IntArg(levels["info"].level)
      [] name = "warning" -> IntArg(levels["warning"].level)
      [] name = "error"   -> IntArg(levels["error"].level)
      [] name = "passed"  -> DictArg(levels["pass"])
      [] name = "fail"    -> IntArg(levels["fail"]["level"])
      [] name = "step"    -> IntArg(levels["step"]["level"])
      [] name = "substep" -> IntArg(levels["substep"]["level"])

debug(s, enable, args) ==
    IF enable /\ args THEN LoggerLeveled(s, LevelArg("debug").value, NoTag) ELSE Ok(s)

info(s, enable, args) ==
    IF enable /\ args THEN LoggerLeveled(s, LevelArg("info").value, NoTag) ELSE Ok(s)

warning(s, enable, args) ==
    IF enable /\ args THEN LoggerLeveled(s, LevelArg("warning").value, NoTag) ELSE Ok(s)

error(s, enable, args) ==
    IF enable /\ args THEN LoggerLeveled(s, LevelArg("error").value, NoTag) ELSE Ok(s)

passed(s, enable, args) ==
    IF enable /\ args THEN Log(s, LevelArg("passed"), NoTag) ELSE Ok(s)

fail(s, enable, args) ==
    IF enable /\ args THEN Log(s, LevelArg("fail"), NoTag) ELSE Ok(s)

\* self.stepn += 1; self.substepn = 0: assignments through the properties stepn and
\* substepn, an AttributeError where the property has no setter.
step(s, enable, args) ==
    IF ~HasSetter("stepn")
    THEN Raise(s, "AttributeError")
    ELSE LET s1 == [s EXCEPT !.stepn = @ + 1] IN
         IF ~HasSetter("substepn")
         THEN Raise(s1, "AttributeError")
         ELSE LET s2 == [s1 EXCEPT !.substepn = 0] IN
              IF enable /\ args
              THEN Log(s2, LevelArg("step"), StepTag(s2))
              ELSE Ok(s2)

\* self.substepn += 1
substep(s, enable, args) ==
    IF ~HasSetter("substepn")
    THEN Raise(s, "AttributeError")
    ELSE LET s1 == [s EXCEPT !.substepn = @ + 1] IN
         IF enable /\ args
         THEN Log(s1, LevelArg("substep"), SubstepTag(s1))
         ELSE Ok(s1)

\* log.<name>(*args, enable=enable): attribute lookup on the TestLogger, then the call.
Call(s, name, enable, args) ==
    CASE name = "debug"   -> debug(s, enable, args)
      [] name = "info"    -> info(s, enable, args)
      [] name = "warning" -> warning(s, enable, args)
      [] name = "error"   -> error(s, enable, args)
      [] name = "passed"  -> passed(s, enable, args)
      [] name = "fail"    -> fail(s, enable, args)
      [] name = "step"    -> step(s, enable, args)
      [] name = "substep" -> substep(s, enable, args)
      [] name \notin Methods -> Raise(s, "AttributeError")

\* The nine calls of the leveled API, one per severity name ("pass" is passed).
PublicCalls == {"debug", "info", "warning", "error", "critical",
                "passed", "fail", "step", "substep"}

\* The severity a public call logs at.
SeverityOf(name) == IF name = "passed" THEN "pass" ELSE name

\* ---------------------------------------------------------------- the state machine

Install(s) ==
    /\ handlers' = s.handlers
    /\ term_handler' = s.term_handler
    /\ setup_file_handler' = s.setup_file_handler
    /\ term_format' = s.term_format
    /\ setup_format' = s.setup_format
    /\ term_config_loglevel' = s.term_config_loglevel
    /\ term_setup_loglevel' = s.term_setup_loglevel
    /\ term_call_loglevel' = s.term_call_loglevel
    /\ setup_file_loglevel' = s.setup_file_loglevel
    /\ stepn' = s.stepn
    /\ substepn' = s.substepn

\* An operation that is no leveled call, as `last` records it (fs: what the file
\* system did to the operation, "" when it touches no file).
Op(name, raised) ==
    [op |-> name, name |-> "", enable |-> FALSE, args |-> FALSE, raised |-> raised,
     fs |-> ""]

Finish(opname, r) ==
    /\ Install(r.self)
    /\ last' = Op(opname, r.raised)
    /\ record' = r.record
    /\ writes' = r.writes

\* log : TestLogger = TestLogger(), at import.
InitLog ==
    /\ handlers = NewTestLogger.handlers
    /\ term_handler = NewTestLogger.term_handler
    /\ setup_file_handler = NewTestLogger.setup_file_handler
    /\ term_format = NewTestLogger.term_format
    /\ setup_format = NewTestLogger.setup_format
    /\ term_config_loglevel = NewTestLogger.term_config_loglevel
    /\ term_setup_loglevel = NewTestLogger.term_setup_loglevel
    /\ term_call_loglevel = NewTestLogger.term_call_loglevel
    /\ setup_file_loglevel = NewTestLogger.setup_file_loglevel
    /\ stepn = NewTestLogger.stepn
    /\ substepn = NewTestLogger.substepn
    /\ configured = FALSE
    /\ stage = "none"
    /\ testcase = ""
    /\ last = Op("import", "")
    /\ record = NoRecord
    /\ writes = <<>>
    /\ lookup = NoLookup

\* A run of pytest with none of the --term-*-loglevel options given.
Init == InitLog /\ option = DefaultOptions

\* pytest_configure: reads the three options into locals it does not use (the
\* TestLogger(...) construction that took them is commented out), then
\* log.init_term_handler()
pytest_configure ==
    /\ ~configured
    /\ Len(handlers) < MaxHandlers
    /\ Finish("pytest_configure", init_term_handler(Self, None, None))
    /\ configured' = TRUE
    /\ UNCHANGED <<stage, testcase, option, lookup>>

\* pytest_runtest_setup: log.configure_term_logger_setup(), then
\* log.init_setup_logger(f'./reports/{meta.testcase}_setup.log')
pytest_runtest_setup(t, fs) ==
    /\ configured
    /\ stage \in {"none", "teardown"}
    /\ Len(handlers) < MaxHandlers
    /\ LET r1 == configure_term_logger_setup(Self)
           r2 == IF r1.raised # ""
                 THEN r1
                 ELSE init_setup_logger(r1.self, SetupLogPath(t), None, None, fs)
       IN  /\ Install(r2.self)
           /\ last' = [Op("pytest_runtest_setup", r2.raised) EXCEPT !.fs = fs]
           /\ record' = r2.record
           /\ writes' = r2.writes
           /\ stage' = IF r2.raised = "" THEN "setup" ELSE "setup_failed"
    /\ testcase' = t
    /\ UNCHANGED <<configured, option, lookup>>

\* pytest_runtest_call: log.configure_term_logger_call(); run when the setup passed.
pytest_runtest_call ==
    /\ stage = "setup"
    /\ Finish("pytest_runtest_call", configure_term_logger_call(Self))
    /\ stage' = "call"
    /\ UNCHANGED <<configured, testcase, option, lookup>>

\* pytest_runtest_teardown: pass
pytest_runtest_teardown ==
    /\ stage \in {"setup", "setup_failed", "call"}
    /\ Finish("pytest_runtest_teardown", Ok(Self))
    /\ stage' = "teardown"
    /\ UNCHANGED <<configured, testcase, option, lookup>>

\* log.init_term_handler(level, fmt), called by code other than the hook.
CallInitTermHandler(level, fmt) ==
    /\ Len(handlers) < MaxHandlers
    /\ Finish("init_term_handler", init_term_handler(Self, level, fmt))
    /\ UNCHANGED <<configured, stage, testcase, option, lookup>>

\* log.configure_term_logger_setup(), called by code other than the hook.
CallConfigureTermLoggerSetup ==
    /\ Finish("configure_term_logger_setup", configure_term_logger_setup(Self))
    /\ UNCHANGED <<configured, stage, testcase, option, lookup>>

\* log.configure_term_logger_call(), called by code other than the hook.
CallConfigureTermLoggerCall ==
    /\ Finish("configure_term_logger_call", configure_term_logger_call(Self))
    /\ UNCHANGED <<configured, stage, testcase, option, lookup>>

\* log.debug(...), log.info(...), ... from a fixture or a test body.
LogCall(name, enable, args) ==
    /\ name = "step" => stepn < MaxStep
    /\ name = "substep" => substepn < MaxStep
    /\ LET r == Call(Self, name, enable, args)
       IN  /\ Install(r.self)
           /\ last' = [op |-> "log", name |-> name, enable |-> enable, args |-> args,
                       raised |-> r.raised, fs |-> ""]
           /\ record' = r.record
           /\ writes' = r.writes
    /\ UNCHANGED <<configured, stage, testcase, option, lookup>>

Next ==
    \/ pytest_configure
    \/ \E t \in Testcases, fs \in FsOutcomes : pytest_runtest_setup(t, fs)
    \/ pytest_runtest_call
    \/ pytest_runtest_teardown
    \/ \E level \in Opt(ArgLevels), fmt \in Opt({CallerFormat}) :
          CallInitTermHandler(level, fmt)
    \/ CallConfigureTermLoggerSetup
    \/ CallConfigureTermLoggerCall
    \/ \E name \in PublicCalls, enable \in BOOLEAN, args \in BOOLEAN :
          LogCall(name, enable, args)

Spec == Init /\ [][Next]_vars

\* ---------------------------------------------------------------- the driver alone

\* A run of pytest with any of the choices given for each of the three options.
InitOptions == InitLog /\ option \in [OptionNames -> OptionChoices]

\* The hooks the plugin registers, and the two calls the test module makes.
NextDriver ==
    \/ pytest_configure
    \/ \E t \in Testcases : pytest_runtest_setup(t, "ok")
    \/ pytest_runtest_call
    \/ pytest_runtest_teardown
    \/ \E name \in {"info", "warning"} : LogCall(name, TRUE, TRUE)

SpecOptions == InitOptions /\ [][NextDriver]_vars

\* ---------------------------------------------------------------- lookups in the table

logvars == <<handlers, term_handler, setup_file_handler, term_format, setup_format,
             term_config_loglevel, term_setup_loglevel, term_call_loglevel,
             setup_file_loglevel, stepn, substepn, configured, stage, testcase,
             last, record, writes>>

\* __map_correct_level(level_name)
MapCorrectLevel(level_name) ==
    /\ lookup' = LET r == map_correct_level(level_name)
                 IN  [fn |-> "map_correct_level", arg |-> Some(level_name),
                      raised |-> r.raised, result |-> Some(r.value)]
    /\ UNCHANGED <<logvars, option>>

\* ColorFormatter.__get_level_by_value(target_value)
GetLevelByValue(target_value) ==
    /\ lookup' = [fn |-> "get_level_by_value", arg |-> Some(target_value),
                  raised |-> "", result |-> get_level_by_value(target_value)]
    /\ UNCHANGED <<logvars, option>>

NextLevels ==
    \/ \E level_name \in NameInputs : MapCorrectLevel(level_name)
    \/ \E target_value \in 0..MaxRank : GetLevelByValue(target_value)

SpecLevels == Init /\ [][NextLevels]_vars

\* ---------------------------------------------------------------- what the claims read

\* The last operation was a leveled call.
LastIsLog == last.op = "log"
\* ... with enable true and at least one message part.
LastIsEnabledLog == LastIsLog /\ last.enable /\ last.args
\* ... with enable false or no message part.
LastIsSuppressedLog == LastIsLog /\ (~last.enable \/ ~last.args)

\* The registered rank of the severity the last call names.
LastRank == levels[SeverityOf(last.name)].level

\* The writes of the last operation by handler h, and to a sink.
WritesBy(h) == {i \in DOMAIN writes : writes[i].h = h}
WritesTo(sink) == {i \in DOMAIN writes : writes[i].sink = sink}

TermHandlers == {h \in 1..Len(handlers) : handlers[h].kind = "term"}
FileHandlers == {h \in 1..Len(handlers) : handlers[h].kind = "file"}

\* C1: every attached destination whose threshold R is one of the five selectable
\* ones receives the record of an enabled call with parts at rank r iff r >= R.
C1_ThresholdFiltering ==
    LastIsEnabledLog =>
        \A h \in 1..Len(handlers) :
            handlers[h].level \in Thresholds =>
                (WritesBy(h) # {} <=> LastRank >= handlers[h].level)

\* C2: a call that produces a record writes exactly once to every sink that has a
\* destination whose threshold passes, never twice to the same sink.
C2_ExactlyOnce ==
    (LastIsLog /\ record.made) =>
        \A h \in 1..Len(handlers) :
            record.levelno >= handlers[h].level =>
                Cardinality(WritesTo(handlers[h].sink)) = 1

\* C3: at most one setup-file destination is attached and at most one setup log file
\* is open: the one of the most recent test identity, held by the router's field.
C3_SetupFileReplaced ==
    /\ Cardinality(FileHandlers) <= 1
    /\ Cardinality(OpenFiles(handlers)) <= 1
    /\ \A h \in FileHandlers :
          h = setup_file_handler /\ handlers[h].sink = SetupLogPath(testcase)

\* C4: once init_term_handler has been called, exactly one terminal destination is
\* attached, and after a call its threshold and format are those of that call.
C4_OneTerminal ==
    /\ term_handler # 0 => TermHandlers = {term_handler}
    /\ last.op \in {"pytest_configure", "init_term_handler"} =>
          /\ handlers[term_handler].level = term_config_loglevel
          /\ handlers[term_handler].fmt = term_format

\* The run of C5: pytest_configure, then pytest_runtest_setup for testcase t, with no
\* other destination attached.
Scenario ==
    /\ configured
    /\ Len(handlers) = 2
    /\ handlers[1].kind = "term"
    /\ handlers[2].kind = "file"
    /\ handlers[2].sink = SetupLogPath(testcase)

\* C5: in that run a warning logged in the call phase is written to the terminal and
\* not to the test's setup log file, and a record of rank >= info logged in the setup
\* phase is written to both the setup file and the terminal.
C5_PhaseScenario ==
    /\ (Scenario /\ stage = "call" /\ LastIsEnabledLog /\ last.name = "warning") =>
          /\ WritesTo(Stderr) # {}
          /\ WritesTo(SetupLogPath(testcase)) = {}
    /\ (Scenario /\ stage = "setup" /\ LastIsLog /\ record.made
            /\ record.levelno >= levels["info"].level) =>
          /\ WritesTo(Stderr) # {}
          /\ WritesTo(SetupLogPath(testcase)) # {}

\* C6: an enabled step call with parts is the next step: it emits a record tagged
\* with the step count so far plus one; an enabled substep call with parts emits a
\* record tagged with the step count and the substep count since that step plus one.
C6_StepNumbering ==
    [][ /\ (LastIsEnabledLog' /\ last'.name = "step") =>
              /\ last'.raised = ""
              /\ record'.made
              /\ record'.step = <<stepn + 1>>
              /\ stepn' = stepn + 1
              /\ substepn' = 0
        /\ (LastIsEnabledLog' /\ last'.name = "substep") =>
              /\ last'.raised = ""
              /\ record'.made
              /\ record'.step = <<stepn, substepn + 1>>
              /\ stepn' = stepn
              /\ substepn' = substepn + 1 ]_vars

\* C7: after pytest_configure, every public leveled call returns without raising.
C7_NeverRaises ==
    (configured /\ LastIsLog) => last.raised = ""

\* C8: a call with enable false or with no parts writes nothing and raises nothing.
C8_ConditionalNoop ==
    LastIsSuppressedLog => (writes = <<>> /\ ~record.made /\ last.raised = "")

\* C9: each of the nine severity names has its call, the call logs at the integer
\* rank registered for the name, and a record it produces carries that rank.
C9_RankOfCall ==
    LastIsEnabledLog =>
        /\ last.name \in Methods
        /\ LevelArg(last.name) = IntArg(LastRank)
        /\ record.made => record.levelno = LastRank

\* C10: with no terminal destination attached, configure_term_logger_setup and
\* configure_term_logger_call raise nothing and leave the router as it was.
C10_ThresholdNoTerminal ==
    [][ (term_handler = 0
            /\ last'.op \in {"configure_term_logger_setup", "configure_term_logger_call"}) =>
           (last'.raised = "" /\ Self' = Self) ]_vars

\* The threshold of the terminal destination the router holds.
TermLevel == handlers[term_handler].level

\* The configured terminal thresholds of the phase begun last: configuration until
\* the first setup, setup from pytest_runtest_setup on, call from pytest_runtest_call
\* on (a teardown follows a call, or a setup that failed).
PhaseThresholds ==
    CASE stage = "none" -> {term_config_loglevel}
      [] stage \in {"setup", "setup_failed"} -> {term_setup_loglevel}
      [] stage = "call" -> {term_call_loglevel}
      [] stage = "teardown" -> {term_setup_loglevel, term_call_loglevel}

\* C11 as stated: after pytest_configure the terminal's threshold is the configured
\* threshold of the phase begun last.
C11_TracksPhase ==
    configured => TermLevel \in PhaseThresholds

\* C11 amended: the terminal's threshold is the one the last of these operations
\* applied: init_term_handler (the hook pytest_configure or a direct call) applies the
\* configuration threshold, configure_term_logger_setup (pytest_runtest_setup or
\* direct) the setup threshold, configure_term_logger_call (pytest_runtest_call or
\* direct) the call threshold; no other operation changes it.
C11_TracksLastApplied ==
    [][ /\ last'.op \in {"pytest_configure", "init_term_handler"} =>
              TermLevel' = term_config_loglevel'
        /\ (last'.op \in {"pytest_runtest_setup", "configure_term_logger_setup"}
                /\ term_handler # 0) =>
              (term_handler' = term_handler /\ TermLevel' = term_setup_loglevel')
        /\ (last'.op \in {"pytest_runtest_call", "configure_term_logger_call"}
                /\ term_handler # 0) =>
              (term_handler' = term_handler /\ TermLevel' = term_call_loglevel')
        /\ (last'.op \in {"log", "pytest_runtest_teardown"} /\ term_handler # 0) =>
              (term_handler' = term_handler /\ TermLevel' = TermLevel) ]_vars

\* C11 witness: the call phase has begun, the terminal has the call threshold, and
\* the configuration threshold is another one.
C11_Witness ==
    /\ last.op = "pytest_runtest_call"
    /\ stage = "call"
    /\ term_config_loglevel # term_call_loglevel
    /\ TermLevel = term_call_loglevel

\* The destinations of a handler sequence: what is attached, and where it writes.
Destinations(hs) == [i \in 1..Len(hs) |-> <<hs[i].kind, hs[i].sink>>]

\* C14: when init_setup_logger cannot create the directories or open the file, the
\* OSError reaches the caller of the hook and no file destination is attached: the
\* destinations are those before the call.
C14_AttachFailurePropagates ==
    [][ (last'.op = "pytest_runtest_setup" /\ last'.fs # "ok") =>
           /\ last'.raised = "OSError"
           /\ Destinations(handlers') = Destinations(handlers)
           /\ setup_file_handler' = setup_file_handler ]_vars

\* C14 witness: a setup hook whose file could not be opened has raised.
C14_Witness ==
    /\ last.op = "pytest_runtest_setup"
    /\ last.fs = "open_fails"
    /\ last.raised = "OSError"
    /\ stage = "setup_failed"

Rank(name) == levels[name].level

\* C16 as stated: the five standard severities are ordered; step, substep and pass lie
\* strictly between warning and critical; fail lies strictly above critical, so a
\* fail record is written to every destination with a selectable threshold.
C16_RankInterleaving ==
    /\ Rank("debug") < Rank("info") /\ Rank("info") < Rank("warning")
    /\ Rank("warning") < Rank("error") /\ Rank("error") < Rank("critical")
    /\ \A n \in {"step", "substep", "pass"} :
          Rank("warning") < Rank(n) /\ Rank(n) < Rank("critical")
    /\ Rank("fail") > Rank("critical")
    /\ (LastIsEnabledLog /\ last.name = "fail") =>
          \A h \in 1..Len(handlers) :
              handlers[h].level \in Thresholds => WritesBy(h) # {}

\* C16 amended: the five standard severities are ordered; step, substep and pass lie
\* strictly between info and warning; fail lies strictly between warning and error,
\* so a fail record is written to a destination iff its threshold is at most the
\* rank of fail: not to one at error or critical.
C16_RankOrder ==
    /\ Rank("debug") < Rank("info") /\ Rank("info") < Rank("warning")
    /\ Rank("warning") < Rank("error") /\ Rank("error") < Rank("critical")
    /\ \A n \in {"step", "substep", "pass"} :
          Rank("info") < Rank(n) /\ Rank(n) < Rank("warning")
    /\ Rank("warning") < Rank("fail") /\ Rank("fail") < Rank("error")
    /\ (LastIsEnabledLog /\ last.name = "fail") =>
          /\ record.made /\ record.levelno = Rank("fail")
          /\ \A h \in 1..Len(handlers) :
                /\ WritesBy(h) # {} <=> handlers[h].level <= Rank("fail")
                /\ handlers[h].level \in {Rank("error"), Rank("critical")} =>
                      WritesBy(h) = {}

\* C16 witness: a fail call was made with a destination at the error threshold
\* attached, and nothing was written to it.
C16_Witness ==
    /\ LastIsEnabledLog /\ last.name = "fail"
    /\ \E h \in 1..Len(handlers) :
          handlers[h].level = Rank("error") /\ WritesBy(h) = {}

\* The fields a format substitutes.
Fields(fmt) == {fmt[i] : i \in DOMAIN fmt}

\* pytest_configure has just run on a router nothing had been attached to.
JustConfigured == last.op = "pytest_configure" /\ Len(handlers) = 1

\* C17 as stated: after pytest_configure with no overrides exactly one terminal
\* destination is attached, its threshold is the info rank and its format has the
\* timestamp, the level-name and the step-tag fields besides the message.
C17_DefaultTerminal ==
    JustConfigured =>
        /\ TermHandlers = {term_handler}
        /\ TermLevel = Rank("info")
        /\ {"asctime", "levelname", "step", "message"} \subseteq
              Fields(handlers[term_handler].fmt)

\* C17 amended: ... its threshold is the info rank and its format has the level-name
\* field, the step-tag field and the message, and no timestamp field.
C17_DefaultTerminalNoTimestamp ==
    JustConfigured =>
        /\ TermHandlers = {term_handler}
        /\ TermLevel = Rank("info")
        /\ Fields(handlers[term_handler].fmt) = {"levelname", "step", "message"}

C17_Witness == JustConfigured /\ configured /\ term_handler = 1

\* C18: a step call adds 1 to stepn and sets substepn to 0, a substep call adds 1 to
\* substepn and leaves stepn, whether or not the call is suppressed; no other
\* operation changes either counter.
C18_CountersUnconditional ==
    [][ /\ (last'.op = "log" /\ last'.name = "step") =>
              (stepn' = stepn + 1 /\ substepn' = 0)
        /\ (last'.op = "log" /\ last'.name = "substep") =>
              (substepn' = substepn + 1 /\ stepn' = stepn)
        /\ ~(last'.op = "log" /\ last'.name \in {"step", "substep"}) =>
              (stepn' = stepn /\ substepn' = substepn) ]_vars

\* C19: no destination is ever detached: the destinations attached before an
\* operation are attached after it, in place; and every record a leveled call makes
\* is written to every setup log file attached so far whose threshold it reaches,
\* whatever the phase and the test that is running.
C19_NeverDetached ==
    [][ /\ Len(handlers') >= Len(handlers)
        /\ SubSeq(Destinations(handlers'), 1, Len(handlers)) = Destinations(handlers)
        /\ (last'.op = "log" /\ record'.made) =>
              \A h \in 1..Len(handlers') :
                  (handlers'[h].kind = "file" /\ record'.levelno >= handlers'[h].level)
                      => \E i \in DOMAIN writes' : writes'[i].h = h ]_vars

\* C19 witness: in the call phase of a test, a record was written to the setup log
\* file of another, earlier test.
C19_Witness ==
    /\ stage = "call"
    /\ LastIsLog /\ record.made
    /\ \E h \in FileHandlers :
          handlers[h].sink # SetupLogPath(testcase) /\ WritesBy(h) # {}

\* The rank the value of option o names.
OptionRank(o) == map_correct_level(option[o]).value

\* C12: once the driver has configured the router, the three per-phase terminal
\* thresholds are the ranks the three --term-*-loglevel options name, the terminal
\* carries the one of its phase, and an enabled call in the call phase below the
\* rank the call-phase option names is not written to the terminal.
C12_OptionsTakeEffect ==
    configured =>
        /\ term_config_loglevel = OptionRank("term_config_loglevel")
        /\ term_setup_loglevel = OptionRank("term_setup_loglevel")
        /\ term_call_loglevel = OptionRank("term_call_loglevel")
        /\ last.op = "pytest_configure" => TermLevel = OptionRank("term_config_loglevel")
        /\ last.op = "pytest_runtest_setup" => TermLevel = OptionRank("term_setup_loglevel")
        /\ last.op = "pytest_runtest_call" => TermLevel = OptionRank("term_call_loglevel")
        /\ (LastIsEnabledLog /\ stage = "call"
                /\ LastRank < OptionRank("term_call_loglevel")) =>
              WritesBy(term_handler) = {}

\* The registered names, spelled out.
RegisteredNames == {KeyChars[n] : n \in LevelNames}

\* C13: resolving a name that is not one of the nine registered names raises
\* UnknownLevelError and yields no rank; no resolution writes to a destination.
C13_UnknownRejected ==
    lookup.fn = "map_correct_level" =>
        /\ lookup.arg[1] \notin RegisteredNames =>
              (lookup.raised = "UnknownLevelError" /\ lookup.result = None)
        /\ writes = <<>>

\* The ranks the table registers.
RegisteredRanks == {levels[n].level : n \in LevelNames}

\* C15: no two distinct registered names share a rank; the reverse lookup of a
\* name's rank yields that name and its entry; the reverse lookup of an integer
\* that is not a registered rank yields None.
C15_RankBijection ==
    /\ \A n, m \in LevelNames : levels[n].level = levels[m].level => n = m
    /\ \A n \in LevelNames : levels_by_value_get(levels[n].level) = Some(n)
    /\ lookup.fn = "get_level_by_value" =>
          /\ \A n \in LevelNames :
                levels[n].level = lookup.arg[1] =>
                    lookup.result = [name |-> Some(n), data |-> Some(levels[n])]
          /\ lookup.arg[1] \notin RegisteredRanks =>
                lookup.result = [name |-> None, data |-> None]

\* C15 witness: the rank of fail, which lies one above the rank of warning, was
\* looked up and fail came back with its entry.
C15_Witness ==
    /\ lookup.fn = "get_level_by_value"
    /\ lookup.arg = Some(levels["fail"].level)
    /\ lookup.result = [name |-> Some("fail"), data |-> Some(levels["fail"])]

====
